---- MODULE Spec2Model ----
(***************************************************************************)
(* A model of the Logux core: the Log (src/log.js) over a Store, and the   *)
(* synchronization of two Logs.  Values follow the JavaScript ones: an     *)
(* action and a meta are records (functions from key names), an entry is   *)
(* the pair <<action, meta>>, an id is the triple <<time, nodeId, seq>>.    *)
(***************************************************************************)
EXTENDS Integers, Sequences, FiniteSets, TLC

\* ------------------------------------------------------------------ bounds

\* The clock readings Date.now() can give: 0 .. MaxTime
MaxTime == 1
\* How many calls of the Log's methods (add, generateId, each, removeReason,
\* changeMeta) one behaviour makes
MaxCalls == 2
\* How many Log.add calls the application makes on the two synchronized Logs
MaxSyncAdds == 2
\* How many times the connection fails: a `sync` delivered twice, a break
MaxFaults == 1

\* ------------------------------------------------------- JavaScript values

\* An object with no keys: {}
EmptyObj == [k \in {} |-> k]

\* The value `false` where a meta could stand (a promise's value)
JsFalse == [false |-> TRUE]

\* obj with key set to val (obj[key] = val)
SetKey(obj, key, val) == (key :> val) @@ obj

\* for (key in diff) obj[key] = diff[key]
Merge(obj, diff) == diff @@ obj

\* obj restricted to keys
Pick(obj, keys) == [k \in (DOMAIN obj) \cap keys |-> obj[k]]

InSeq(x, s) == \E i \in 1..Len(s) : s[i] = x

\* Array.prototype.indexOf: the 0-based index of the first x, or -1
IndexOf(s, x) ==
  IF InSeq(x, s) THEN (CHOOSE i \in 1..Len(s) : s[i] = x /\ \A j \in 1..(i-1) : s[j] # x) - 1
  ELSE -1

\* Array.prototype.slice(start, end): the elements at the 0-based indexes
\* start .. end-1, a negative index counting from the end
Slice(s, start, end) ==
  LET n    == Len(s)
      from == IF start < 0 THEN (IF n + start < 0 THEN 0 ELSE n + start)
              ELSE (IF start > n THEN n ELSE start)
      to   == IF end < 0 THEN (IF n + end < 0 THEN 0 ELSE n + end)
              ELSE (IF end > n THEN n ELSE end)
  IN  IF to <= from THEN <<>> ELSE SubSeq(s, from + 1, to)

\* s without its element at 1-based position i
RemoveAt(s, i) == SubSeq(s, 1, i - 1) \o SubSeq(s, i + 1, Len(s))

\* ------------------------------------------------------------------ inputs

NodeId == "n1"

\* Node ids in the order isFirstOlder gives them
NodeRank == [n1 |-> 1, n2 |-> 2]

Reasons == {"r1", "r2"}

\* The action the application adds, and an object that has no `type`
TypedAction == [type |-> "inc"]
UntypedAction == [payload |-> "inc"]
Actions == {TypedAction, UntypedAction}

\* Ids a caller supplies in meta.id: ids of another node
ExtIds == {<<1, "n2", 0>>}

\* The metas a caller passes to add(): every subset of the keys id, time
\* and reasons
InputMetas ==
  LET full == [id : ExtIds, time : {5}, reasons : {<<"r1">>, <<"r1", "r2">>}]
  IN  {Pick(m, ks) : m \in full, ks \in SUBSET {"id", "time", "reasons"}}

\* The criteria a caller passes to removeReason()
Criterias ==
  {EmptyObj} \cup {[minAdded |-> a] : a \in 1..MaxCalls}
             \cup {[maxAdded |-> a] : a \in 1..MaxCalls}

\* The diffs a caller passes to changeMeta()
Diffs == {[status |-> "processed"], [id |-> <<1, "n2", 0>>], [added |-> 7]}

\* The `before` listeners the application registered: none, or one that
\* adds a reason to an action that lacks it
Listeners == {"none", "push"}

VARIABLES
  lastTime,   \* Log.lastTime
  sequence,   \* Log.sequence
  store,      \* Log.store: [entries, lastAdded], entries newest first
  listener,   \* the `before` listener registered on Log.emitter
  pending,    \* the promises of add() whose continuation has not run yet
  iters,      \* the iterations each() started: pages left, entries visited
  events,     \* the (name, action, meta) the emitter has emitted, in order
  ids,        \* the ids generateId has returned, in order
  ncalls,     \* how many calls of the Log's methods were made
  last,       \* the call or continuation that ran last, with its result
  logs,       \* the Logs of the two synchronized nodes
  node,       \* the two nodes: connected, authenticated, timeFix, cursors
  chan,       \* the messages in flight to each node, in order
  recv,       \* the ids each node got in `sync` messages, once and again
  sbudget,    \* how many adds and how many failures of the connection happened
  rc,         \* the Reconnect supervisor, its wrapped connection and the host
  hb          \* the heartbeat of one node: its timers and what they led to

logVars == <<lastTime, sequence, store, listener, pending, iters, events, ids,
             ncalls, last>>

syncVars == <<logs, node, chan, recv, sbudget>>

vars == <<logVars, syncVars, rc, hb>>

\* ------------------------------------------------------------------- Store

\* How many entries the store puts on one page of get()
PageSize == 2

StoreIds(st) == {st.entries[i][2].id : i \in 1..Len(st.entries)}

\* A store.has that finds nothing
StoreHas_Never(st, id) == FALSE

\* store.has(id)
StoreHas(st, id) == id \in StoreIds(st)

StoreFind(st, id) == CHOOSE i \in 1..Len(st.entries) : st.entries[i][2].id = id

\* store.byId(id): the entry, for an id that is stored
StoreById(st, id) == st.entries[StoreFind(st, id)]

\* store.add that does not look for the id
StoreAdd_NoCheck(st, action, meta) ==
  LET m == SetKey(meta, "added", st.lastAdded + 1)
  IN  [store |-> [entries |-> <<<<action, m>>>> \o st.entries,
                  lastAdded |-> st.lastAdded + 1],
       value |-> m]

\* store.add(action, meta): false for an id that is stored, else the meta
\* with the next `added`
StoreAdd(st, action, meta) ==
  IF StoreHas(st, meta.id)
  THEN [store |-> st, value |-> JsFalse]
  ELSE LET m == SetKey(meta, "added", st.lastAdded + 1)
       IN  [store |-> [entries |-> <<<<action, m>>>> \o st.entries,
                       lastAdded |-> st.lastAdded + 1],
            value |-> m]

\* store.remove(id)
StoreRemove(st, id) ==
  IF StoreHas(st, id)
  THEN [st EXCEPT !.entries = RemoveAt(st.entries, StoreFind(st, id))]
  ELSE st

\* store.changeMeta(id, diff): a merge; false for an unknown id
StoreChangeMeta(st, id, diff) ==
  IF StoreHas(st, id)
  THEN LET i == StoreFind(st, id)
       IN  [store |-> [st EXCEPT !.entries[i] =
                         <<st.entries[i][1], Merge(st.entries[i][2], diff)>>],
            value |-> TRUE]
  ELSE [store |-> st, value |-> FALSE]

\* isFirstOlder on ids: by time, then node id, then sequence
IdOlder(a, b) ==
  \/ a[1] < b[1]
  \/ a[1] = b[1] /\ NodeRank[a[2]] < NodeRank[b[2]]
  \/ a[1] = b[1] /\ a[2] = b[2] /\ a[3] < b[3]

RECURSIVE InsertCreated(_, _)
InsertCreated(e, sorted) ==
  IF sorted = <<>> THEN <<e>>
  ELSE IF IdOlder(Head(sorted)[2].id, e[2].id) THEN <<e>> \o sorted
  ELSE <<Head(sorted)>> \o InsertCreated(e, Tail(sorted))

\* The entries by id, the newest first
RECURSIVE SortCreated(_)
SortCreated(es) ==
  IF es = <<>> THEN <<>> ELSE InsertCreated(Head(es), SortCreated(Tail(es)))

\* The lazy page sequence of one get(): pages of PageSize entries, the
\* last one without `next`
RECURSIVE Pages(_)
Pages(es) ==
  IF Len(es) <= PageSize THEN <<es>>
  ELSE <<SubSeq(es, 1, PageSize)>> \o Pages(SubSeq(es, PageSize + 1, Len(es)))

\* store.get(opts): a snapshot of the entries in the order asked for, those
\* carrying opts.reason when it is given
StoreGet(st, opts) ==
  LET ordered  == IF "order" \in DOMAIN opts /\ opts.order = "created"
                  THEN SortCreated(st.entries) ELSE st.entries
      filtered == IF "reason" \in DOMAIN opts
                  THEN SelectSeq(ordered, LAMBDA e : InSeq(opts.reason, e[2].reasons))
                  ELSE ordered
  IN  Pages(filtered)

\* --------------------------------------------------------------------- Log

Ev(name, action, meta) == [name |-> name, action |-> action, meta |-> meta]

\* generateId with `now < this.lastTime`: an equal reading restarts the
\* sequence
GenerateId_Strict(lt, sq, nodeId, now) ==
  IF now < lt
  THEN [lastTime |-> lt, sequence |-> sq + 1, id |-> <<lt, nodeId, sq + 1>>]
  ELSE [lastTime |-> now, sequence |-> 0, id |-> <<now, nodeId, 0>>]

\* Log.prototype.generateId, the clock reading `now`
GenerateId(lt, sq, nodeId, now) ==
  IF now <= lt
  THEN [lastTime |-> lt, sequence |-> sq + 1, id |-> <<lt, nodeId, sq + 1>>]
  ELSE [lastTime |-> now, sequence |-> 0, id |-> <<now, nodeId, 0>>]

\* Log.prototype.add, `if (meta.reasons.length === 0 && newId)`: the action
\* is only emitted, the store is not touched
IsBroadcastOnly_Inverted(meta, newId) == Len(meta.reasons) = 0 /\ ~newId

IsBroadcastOnly(meta, newId) == Len(meta.reasons) = 0 /\ newId

\* add with `meta.time = meta.id[0]` for every meta
DefaultTime_Always(meta) == SetKey(meta, "time", meta.id[1])

\* Log.prototype.add, `if (typeof meta.time === 'undefined') meta.time = meta.id[0]`
DefaultTime(meta) ==
  IF "time" \notin DOMAIN meta THEN SetKey(meta, "time", meta.id[1]) ELSE meta

\* What the registered `before` listener does to the meta
BeforeListener(lsn, action, meta) ==
  IF lsn = "push" /\ ~InSeq("r2", meta.reasons)
  THEN [meta EXCEPT !.reasons = Append(@, "r2")]
  ELSE meta

\* add that chooses between the store and the broadcast before it emits
\* `before`
LogAdd_DecideBeforeListeners(lg, lsn, action, meta0, now) ==
  IF "type" \notin DOMAIN action
  THEN [threw |-> TRUE, log |-> lg, emitted |-> <<>>, generated |-> <<>>,
        deferred |-> FALSE, newId |-> FALSE, meta |-> meta0, result |-> JsFalse]
  ELSE
    LET newId == "id" \notin DOMAIN meta0
        gen   == GenerateId(lg.lastTime, lg.sequence, lg.nodeId, now)
        lg1   == IF newId
                 THEN [lg EXCEPT !.lastTime = gen.lastTime, !.sequence = gen.sequence]
                 ELSE lg
        m1    == IF newId THEN SetKey(meta0, "id", gen.id) ELSE meta0
        m2    == DefaultTime(m1)
        m3    == IF "reasons" \notin DOMAIN m2 THEN SetKey(m2, "reasons", <<>>) ELSE m2
        m4    == BeforeListener(lsn, action, m3)
        before == Ev("before", action, m4)
        made  == IF newId THEN <<gen.id>> ELSE <<>>
    IN  IF IsBroadcastOnly(m3, newId)
        THEN [threw |-> FALSE, log |-> lg1,
              emitted |-> <<before, Ev("add", action, m4)>>,
              generated |-> made, deferred |-> FALSE, newId |-> newId,
              meta |-> m4, result |-> m4]
        ELSE LET r == IF Len(m3.reasons) = 0
                      THEN [store |-> lg1.store,
                            value |-> IF StoreHas(lg1.store, m4.id) THEN JsFalse ELSE m4]
                      ELSE StoreAdd(lg1.store, action, m4)
             IN  [threw |-> FALSE, log |-> [lg1 EXCEPT !.store = r.store],
                  emitted |-> <<before>>,
                  generated |-> made, deferred |-> TRUE, newId |-> newId,
                  meta |-> m4, result |-> r.value]

\* Log.prototype.add up to the promise it returns. lg is [nodeId, lastTime,
\* sequence, store]. The outcome: the Log's fields, the events emitted, and
\* either the settled result or the promise whose continuation is AddThen.
LogAdd(lg, lsn, action, meta0, now) ==
  IF "type" \notin DOMAIN action
  THEN [threw |-> TRUE, log |-> lg, emitted |-> <<>>, generated |-> <<>>,
        deferred |-> FALSE, newId |-> FALSE, meta |-> meta0, result |-> JsFalse]
  ELSE
    LET newId == "id" \notin DOMAIN meta0
        gen   == GenerateId(lg.lastTime, lg.sequence, lg.nodeId, now)
        lg1   == IF newId
                 THEN [lg EXCEPT !.lastTime = gen.lastTime, !.sequence = gen.sequence]
                 ELSE lg
        m1    == IF newId THEN SetKey(meta0, "id", gen.id) ELSE meta0
        m2    == DefaultTime(m1)
        m3    == IF "reasons" \notin DOMAIN m2 THEN SetKey(m2, "reasons", <<>>) ELSE m2
        m4    == BeforeListener(lsn, action, m3)
        before == Ev("before", action, m4)
        made  == IF newId THEN <<gen.id>> ELSE <<>>
    IN  IF IsBroadcastOnly(m4, newId)
        THEN [threw |-> FALSE, log |-> lg1,
              emitted |-> <<before, Ev("add", action, m4)>>,
              generated |-> made, deferred |-> FALSE, newId |-> newId,
              meta |-> m4, result |-> m4]
        ELSE LET r == IF Len(m4.reasons) = 0
                      THEN [store |-> lg1.store,
                            value |-> IF StoreHas(lg1.store, m4.id) THEN JsFalse ELSE m4]
                      ELSE StoreAdd(lg1.store, action, m4)
             IN  [threw |-> FALSE, log |-> [lg1 EXCEPT !.store = r.store],
                  emitted |-> <<before>>,
                  generated |-> made, deferred |-> TRUE, newId |-> newId,
                  meta |-> m4, result |-> r.value]

\* The continuation without its `addedMeta === false` test
AddThen_AlwaysEmit(action, addedMeta) ==
  [emitted |-> <<Ev("add", action, addedMeta)>>, result |-> addedMeta]

\* The continuation of add's promise (promise.then): the events it emits
\* for the value the store gave
AddThen(action, addedMeta) ==
  IF addedMeta = JsFalse
  THEN [emitted |-> <<>>, result |-> JsFalse]
  ELSE [emitted |-> <<Ev("add", action, addedMeta)>>, result |-> addedMeta]

\* if (criteria.x && ...): the key is there and its value is not 0
Truthy(obj, key) == key \in DOMAIN obj /\ obj[key] # 0

\* The callback removeReason gives to each(): what it does to the store for
\* one entry of the page
RemoveReasonCallback(st, reason, criteria, entry) ==
  LET meta == entry[2]
  IN  IF Truthy(criteria, "minAdded") /\ meta.added > criteria.minAdded THEN st
      ELSE IF Truthy(criteria, "maxAdded") /\ meta.added < criteria.maxAdded THEN st
      ELSE IF Len(meta.reasons) = 1 THEN StoreRemove(st, meta.id)
      ELSE StoreChangeMeta(st, meta.id,
             [reasons |-> Slice(meta.reasons, IndexOf(meta.reasons, reason), 1)]).store

\* Log.prototype.each, one page: the callback on the page's entries in
\* order until it returns false. `it` is the iteration, `page` what is left
\* of the page; gives the store, the entries visited and whether the
\* callback returned false.
\* A page loop that goes on after the callback returned false
RECURSIVE EachPage_NoBreak(_, _, _, _)
EachPage_NoBreak(st, it, page, visited) ==
  IF page = <<>> THEN [store |-> st, visited |-> visited, stopped |-> FALSE]
  ELSE LET entry == Head(page)
           seen  == Append(visited, entry)
       IN  IF it.kind = "removeReason"
           THEN EachPage_NoBreak(RemoveReasonCallback(st, it.reason, it.criteria, entry),
                                 it, Tail(page), seen)
           ELSE EachPage_NoBreak(st, it, Tail(page), seen)

RECURSIVE EachPage(_, _, _, _)
EachPage(st, it, page, visited) ==
  IF page = <<>> THEN [store |-> st, visited |-> visited, stopped |-> FALSE]
  ELSE LET entry == Head(page)
           seen  == Append(visited, entry)
       IN  IF it.kind = "removeReason"
           THEN EachPage(RemoveReasonCallback(st, it.reason, it.criteria, entry),
                         it, Tail(page), seen)
           ELSE IF Len(seen) = it.stopAt
                THEN [store |-> st, visited |-> seen, stopped |-> TRUE]
                ELSE EachPage(st, it, Tail(page), seen)

\* changeMeta that emits `changeMeta` when the store changed the meta
LogChangeMeta_Emitting(st, id, diff) ==
  IF "id" \in DOMAIN diff \/ "added" \in DOMAIN diff
  THEN [threw |-> TRUE, store |-> st, emitted |-> <<>>, result |-> FALSE]
  ELSE LET r == StoreChangeMeta(st, id, diff)
       IN  [threw |-> FALSE, store |-> r.store,
            emitted |-> IF r.value THEN <<Ev("changeMeta", id, diff)>> ELSE <<>>,
            result |-> r.value]

\* changeMeta that looks for the key `id` only
LogChangeMeta_IdOnly(st, id, diff) ==
  IF "id" \in DOMAIN diff
  THEN [threw |-> TRUE, store |-> st, emitted |-> <<>>, result |-> FALSE]
  ELSE LET r == StoreChangeMeta(st, id, diff)
       IN  [threw |-> FALSE, store |-> r.store, emitted |-> <<>>, result |-> r.value]

\* Log.prototype.changeMeta: throws for a diff with id or added, else
\* returns the store's promise
LogChangeMeta(st, id, diff) ==
  IF "id" \in DOMAIN diff \/ "added" \in DOMAIN diff
  THEN [threw |-> TRUE, store |-> st, emitted |-> <<>>, result |-> FALSE]
  ELSE LET r == StoreChangeMeta(st, id, diff)
       IN  [threw |-> FALSE, store |-> r.store, emitted |-> <<>>, result |-> r.value]

\* ----------------------------------------------------------------- actions

\* new Log({ store: new MemoryStore(), nodeId })
LogInit ==
  /\ lastTime = 0
  /\ sequence = 0
  /\ store = [entries |-> <<>>, lastAdded |-> 0]
  /\ listener \in Listeners
  /\ pending = <<>>
  /\ iters = <<>>
  /\ events = <<>>
  /\ ids = <<>>
  /\ ncalls = 0
  /\ last = [op |-> "new"]

ThisLog == [nodeId |-> NodeId, lastTime |-> lastTime, sequence |-> sequence,
            store |-> store]

\* log.generateId()
GenerateIdCall(now) ==
  /\ ncalls < MaxCalls
  /\ LET g == GenerateId(lastTime, sequence, NodeId, now)
     IN  /\ lastTime' = g.lastTime
         /\ sequence' = g.sequence
         /\ ids' = Append(ids, g.id)
         /\ last' = [op |-> "generateId", id |-> g.id]
  /\ ncalls' = ncalls + 1
  /\ UNCHANGED <<store, listener, pending, iters, events>>
  /\ UNCHANGED <<syncVars, rc, hb>>

\* log.add(action, meta), to the promise it returns
AddCall(action, meta, now) ==
  /\ ncalls < MaxCalls
  /\ LET o == LogAdd(ThisLog, listener, action, meta, now)
     IN  /\ lastTime' = o.log.lastTime
         /\ sequence' = o.log.sequence
         /\ store' = o.log.store
         /\ events' = events \o o.emitted
         /\ ids' = ids \o o.generated
         /\ pending' = IF o.deferred
                       THEN Append(pending, [action |-> action, meta |-> o.meta,
                                             value |-> o.result])
                       ELSE pending
         /\ last' = IF o.threw THEN [op |-> "add", threw |-> TRUE]
                     ELSE [op |-> "add", threw |-> FALSE, action |-> action,
                           newId |-> o.newId, meta |-> o.meta,
                           deferred |-> o.deferred, result |-> o.result]
  /\ ncalls' = ncalls + 1
  /\ UNCHANGED <<listener, iters>>
  /\ UNCHANGED <<syncVars, rc, hb>>

\* The continuation of the k-th pending add promise
AddResolve(k) ==
  /\ k \in 1..Len(pending)
  /\ LET p == pending[k]
         o == AddThen(p.action, p.value)
     IN  /\ events' = events \o o.emitted
         /\ last' = [op |-> "addThen", action |-> p.action, meta |-> p.meta,
                     value |-> p.value, result |-> o.result]
  /\ pending' = RemoveAt(pending, k)
  /\ UNCHANGED <<lastTime, sequence, store, listener, iters, ids, ncalls>>
  /\ UNCHANGED <<syncVars, rc, hb>>

\* log.removeReason(reason, criteria), to the first store.get
RemoveReasonCall(reason, criteria) ==
  /\ ncalls < MaxCalls
  /\ iters' = Append(iters, [kind |-> "removeReason", reason |-> reason,
                             criteria |-> criteria, stopAt |-> 0,
                             pages |-> StoreGet(store, [reason |-> reason]),
                             visited |-> <<>>, done |-> FALSE])
  /\ last' = [op |-> "removeReason"]
  /\ ncalls' = ncalls + 1
  /\ UNCHANGED <<lastTime, sequence, store, listener, pending, events, ids>>
  /\ UNCHANGED <<syncVars, rc, hb>>

\* log.each(opts, callback), to the first store.get; the callback returns
\* false on its stopAt-th call (never, when stopAt is 0)
EachCall(opts, stopAt) ==
  /\ ncalls < MaxCalls
  /\ iters' = Append(iters, [kind |-> "each", reason |-> "", criteria |-> EmptyObj,
                             stopAt |-> stopAt,
                             pages |-> StoreGet(store, opts),
                             visited |-> <<>>, done |-> FALSE])
  /\ last' = [op |-> "each"]
  /\ ncalls' = ncalls + 1
  /\ UNCHANGED <<lastTime, sequence, store, listener, pending, events, ids>>
  /\ UNCHANGED <<syncVars, rc, hb>>

\* The continuation of get(): one page of the i-th iteration
IterPage(i) ==
  /\ i \in 1..Len(iters)
  /\ ~iters[i].done
  /\ LET it == iters[i]
         page == Head(it.pages)
         r == EachPage(store, it, page, it.visited)
         resolve == r.stopped \/ Len(it.pages) = 1
     IN  /\ store' = r.store
         /\ iters' = [iters EXCEPT ![i] =
                        [it EXCEPT !.visited = r.visited,
                                   !.done = resolve,
                                   !.pages = IF resolve THEN <<>> ELSE Tail(it.pages)]]
         /\ last' = [op |-> "page", kind |-> it.kind, reason |-> it.reason,
                     criteria |-> it.criteria, page |-> page,
                     first |-> (it.visited = <<>>), done |-> resolve]
  /\ UNCHANGED <<lastTime, sequence, listener, pending, events, ids, ncalls>>
  /\ UNCHANGED <<syncVars, rc, hb>>

\* log.changeMeta(id, diff)
ChangeMetaCall(id, diff) ==
  /\ ncalls < MaxCalls
  /\ LET o == LogChangeMeta(store, id, diff)
     IN  /\ store' = o.store
         /\ events' = events \o o.emitted
         /\ last' = [op |-> "changeMeta", threw |-> o.threw, result |-> o.result]
  /\ ncalls' = ncalls + 1
  /\ UNCHANGED <<lastTime, sequence, listener, pending, iters, ids>>
  /\ UNCHANGED <<syncVars, rc, hb>>

EachOpts == {[order |-> "created"], [order |-> "added"]}

\* How many entries the Log holds when each() is called on it
MaxEntries == 3

\* The ids of these entries, and the orders they were added in: every
\* sequence without repetition of at most MaxEntries of them
EachIds == {<<0, "n1", 1>>, <<1, "n1", 0>>, <<1, "n2", 0>>}
IdSeqs == {s \in UNION {[1..n -> EachIds] : n \in 0..MaxEntries} :
             \A i, j \in 1..Len(s) : i # j => s[i] # s[j]}

\* The store after store.add of the entries with these ids, one by one
RECURSIVE StoreOf(_)
StoreOf(s) ==
  IF s = <<>> THEN [entries |-> <<>>, lastAdded |-> 0]
  ELSE LET id == s[Len(s)]
       IN  StoreAdd(StoreOf(SubSeq(s, 1, Len(s) - 1)), TypedAction,
                    [id |-> id, time |-> id[1], reasons |-> <<"r1">>]).store

\* A Log that holds some entries and has no call in flight
EachInit ==
  /\ lastTime = 0
  /\ sequence = 0
  /\ store \in {StoreOf(s) : s \in IdSeqs}
  /\ listener = "none"
  /\ pending = <<>>
  /\ iters = <<>>
  /\ events = <<>>
  /\ ids = <<>>
  /\ ncalls = 0
  /\ last = [op |-> "new"]

\* --------------------------------------------------------------- Reconnect

\* options.attempts when no cap is given
Infinity == 1000000

\* How many times connect() is called without a `connect` event in between
MaxAttempts == 4

\* The value of the timer when none is pending
NoTimer == -1

\* The options a Reconnect is made with
DefaultOptions == [attempts |-> Infinity, minDelay |-> 1000, maxDelay |-> 5000]
ReconOptions ==
  {DefaultOptions,
   [attempts |-> Infinity, minDelay |-> 50,   maxDelay |-> 50],
   [attempts |-> Infinity, minDelay |-> 1000, maxDelay |-> 0],
   [attempts |-> 3,        minDelay |-> 0,    maxDelay |-> 0]}

\* The wrapped connection: one whose connect() is followed by `connecting`
\* and, if nothing breaks it, `connect`; and one whose connect() emits
\* `disconnect` at once
Peers == {"accept", "reject"}

\* The reasons of a disconnect ("none" for undefined), the kinds of `error`
\* messages, and the events of the host
DisconnectReasons == {"none", "destroy", "error", "timeout", "freeze", "protocol"}
ErrorKinds == {"wrong-protocol", "wrong-credentials", "wrong-subprotocol",
               "wrong-format", "timeout"}
HostEvents == {"visibilitychange", "online", "resume", "freeze"}

\* The jitter is j * attempts * 100 ms: nothing, the middle and the end of
\* [0, attempts * 200]
JitterSteps == 0..2

Min(a, b) == IF a <= b THEN a ELSE b

\* x * 2^k, the doubling given up once it has reached cap
RECURSIVE Doubled(_, _, _)
Doubled(x, k, cap) ==
  IF k = 0 \/ x >= cap THEN x ELSE Doubled(2 * x, k - 1, cap)

\* nextDelay without the maximum
NextDelay_NoMax(opts, k, j) == Doubled(opts.minDelay, k, opts.maxDelay) + j * k * 100

\* nextDelay(): min(maxDelay, minDelay * 2^attempts + jitter); the power is
\* not computed beyond maxDelay, where the minimum is maxDelay anyway
NextDelay(opts, k, j) ==
  Min(opts.maxDelay, Doubled(opts.minDelay, k, opts.maxDelay) + j * k * 100)

\* new Reconnect(connection, opts)
NewReconnect(opts, peer, connected) ==
  [opts |-> opts, peer |-> peer,
   reconnecting |-> connected, connecting |-> FALSE, connected |-> connected,
   attempts |-> 0, timer |-> NoTimer,
   hidden |-> FALSE, online |-> TRUE,
   hostListeners |-> HostEvents, connListeners |-> 1, destroyed |-> FALSE,
   dials |-> 0,
   last |-> [op |-> "new", dialed |-> FALSE, reason |-> "none"]]

\* The cap read as `attempts > options.attempts`
CapReached_Literal(r) == r.attempts > r.opts.attempts

\* The attempt cap: the next attempt would be beyond options.attempts
CapReached(r) == r.attempts > r.opts.attempts - 1

\* Scheduling of a reconnect: none once the cap is reached
Reschedule(r, j) ==
  IF CapReached(r)
  THEN [r EXCEPT !.reconnecting = FALSE]
  ELSE [r EXCEPT !.timer = NextDelay(r.opts, r.attempts, j)]

\* The reasons of a disconnect after which no reconnect is scheduled
NoReconnectReasons == {"destroy", "protocol", "freeze"}

\* A `disconnect` listener that schedules whatever `reconnecting` is
OnDisconnect_Always(r, reason, j) ==
  LET r1 == [r EXCEPT !.connecting = FALSE, !.connected = FALSE]
  IN  IF reason \notin NoReconnectReasons THEN Reschedule(r1, j) ELSE r1

\* The listener of the wrapped connection's `disconnect`
OnDisconnect(r, reason, j) ==
  LET r1 == [r EXCEPT !.connecting = FALSE, !.connected = FALSE]
  IN  IF r.reconnecting /\ reason \notin NoReconnectReasons
      THEN Reschedule(r1, j)
      ELSE r1

\* connection.connect() of the wrapped connection
WrappedConnect(r, j) ==
  LET r1 == [r EXCEPT !.dials = @ + 1, !.last.dialed = TRUE]
  IN  IF r.peer = "accept"
      THEN [r1 EXCEPT !.connecting = TRUE]
      ELSE OnDisconnect(r1, "none", j)

\* Reconnect.connect()
ReconnectConnect(r, j) ==
  WrappedConnect([r EXCEPT !.attempts = @ + 1, !.reconnecting = TRUE], j)

\* A disconnect(reason) that turns reconnecting off for `timeout` as well
KeepsReconnecting_ErrorOnly(reason) == reason \in {"error", "freeze"}

\* The reasons with which disconnect(reason) leaves reconnecting as it is
KeepsReconnecting(reason) == reason \in {"timeout", "error", "freeze"}

\* Reconnect.disconnect(reason)
ReconnectDisconnect(r, reason, j) ==
  LET r1 == IF KeepsReconnecting(reason) THEN r
            ELSE [r EXCEPT !.reconnecting = FALSE]
  IN  IF r.connected \/ r.connecting THEN OnDisconnect(r1, reason, j) ELSE r1

\* Terminal kinds without wrong-credentials
IsTerminal_NoCredentials(kind) == kind \in {"wrong-protocol", "wrong-subprotocol"}

\* The error kinds that forbid automatic reconnection
IsTerminal(kind) ==
  kind \in {"wrong-protocol", "wrong-credentials", "wrong-subprotocol"}

\* The listener of the wrapped connection's `message`, for ['error', kind]
OnErrorMessage(r, kind) ==
  IF IsTerminal(kind) THEN [r EXCEPT !.reconnecting = FALSE] ELSE r

\* Disconnected, not on the way, and supposed to reconnect
CanReconnect(r) == r.reconnecting /\ ~r.connected /\ ~r.connecting

\* A visibilitychange listener that does not look at document.hidden
OnVisibility_Blind(r, j) ==
  IF CanReconnect(r) THEN ReconnectConnect(r, j) ELSE r

\* The listener of visibilitychange
OnVisibility(r, j) ==
  IF CanReconnect(r) /\ ~r.hidden THEN ReconnectConnect(r, j) ELSE r

\* The listener of online and resume
OnOnline(r, j) ==
  IF CanReconnect(r) /\ r.online THEN ReconnectConnect(r, j) ELSE r

\* The callback of the reconnect timer; retries halt while hidden
OnTimer(r, j) ==
  LET r1 == [r EXCEPT !.timer = NoTimer]
  IN  IF CanReconnect(r) /\ ~r.hidden THEN ReconnectConnect(r1, j) ELSE r1

\* A destroy() that leaves the listeners on the host
ReconnectDestroy_KeepHost(r) ==
  [r EXCEPT !.connListeners = 0, !.timer = NoTimer,
            !.reconnecting = FALSE, !.connected = FALSE, !.connecting = FALSE,
            !.destroyed = TRUE]

\* Reconnect.destroy(): unbinds the listeners, cancels the timer and
\* disconnects with reason destroy
ReconnectDestroy(r) ==
  [r EXCEPT !.connListeners = 0, !.hostListeners = {}, !.timer = NoTimer,
            !.reconnecting = FALSE, !.connected = FALSE, !.connecting = FALSE,
            !.destroyed = TRUE]

\* What ran last on the supervisor
Ran(r, op, reason) ==
  [r EXCEPT !.last = [op |-> op, dialed |-> FALSE, reason |-> reason]]

ReconInit ==
  rc \in {NewReconnect(o, p, c) : o \in ReconOptions, p \in Peers, c \in BOOLEAN}

\* The application calls connect()
ReconConnect ==
  /\ ~rc.destroyed
  /\ ~rc.connected /\ ~rc.connecting
  /\ rc.attempts < MaxAttempts
  /\ \E j \in JitterSteps :
       rc' = ReconnectConnect([Ran(rc, "connect", "none") EXCEPT !.dials = 0], j)
  /\ UNCHANGED <<logVars, syncVars, hb>>

\* The wrapped connection emits `connect`
Established ==
  /\ rc.connecting
  /\ rc' = [Ran(rc, "established", "none") EXCEPT
              !.connected = TRUE, !.connecting = FALSE,
              !.attempts = 0, !.dials = 0]
  /\ UNCHANGED <<logVars, syncVars, hb>>

\* The wrapped connection emits `disconnect` on its own: the peer has
\* closed it (no reason) or the transport has failed
Dropped(reason) ==
  /\ rc.connected \/ rc.connecting
  /\ \E j \in JitterSteps :
       rc' = OnDisconnect(Ran(rc, "dropped", reason), reason, j)
  /\ UNCHANGED <<logVars, syncVars, hb>>

\* disconnect(reason) is called on the supervisor
DisconnectCall(reason) ==
  /\ ~rc.destroyed
  /\ rc.connected
  /\ \E j \in JitterSteps :
       rc' = ReconnectDisconnect(Ran(rc, "disconnect", reason), reason, j)
  /\ UNCHANGED <<logVars, syncVars, hb>>

\* The peer sends ['error', kind]
RecvError(kind) ==
  /\ ~rc.destroyed
  /\ rc.connected
  /\ rc' = OnErrorMessage(Ran(rc, "error", kind), kind)
  /\ UNCHANGED <<logVars, syncVars, hb>>

\* The reconnect timer is due
TimerFire ==
  /\ rc.timer # NoTimer
  /\ rc.attempts < MaxAttempts
  /\ \E j \in JitterSteps : rc' = OnTimer(Ran(rc, "timer", "none"), j)
  /\ UNCHANGED <<logVars, syncVars, hb>>

\* document.hidden becomes v and visibilitychange fires
SetHidden(v) ==
  /\ rc.attempts < MaxAttempts
  /\ LET r == [Ran(rc, "visibilitychange", "none") EXCEPT !.hidden = v]
     IN  \E j \in JitterSteps :
           rc' = IF "visibilitychange" \in rc.hostListeners
                 THEN OnVisibility(r, j) ELSE r
  /\ UNCHANGED <<logVars, syncVars, hb>>

\* navigator.onLine becomes v and `online` or `resume` fires
SetOnLine(v, event) ==
  /\ rc.attempts < MaxAttempts
  /\ LET r == [Ran(rc, event, "none") EXCEPT !.online = v]
     IN  \E j \in JitterSteps :
           rc' = IF event \in rc.hostListeners THEN OnOnline(r, j) ELSE r
  /\ UNCHANGED <<logVars, syncVars, hb>>

\* `freeze` fires: disconnect('freeze')
Freeze ==
  /\ "freeze" \in rc.hostListeners
  /\ \E j \in JitterSteps :
       rc' = ReconnectDisconnect(Ran(rc, "freeze", "freeze"), "freeze", j)
  /\ UNCHANGED <<logVars, syncVars, hb>>

\* The application sets reconnecting to false
SetReconnecting ==
  /\ ~rc.destroyed
  /\ rc.reconnecting
  /\ rc' = [Ran(rc, "reconnecting", "none") EXCEPT !.reconnecting = FALSE]
  /\ UNCHANGED <<logVars, syncVars, hb>>

\* The application calls destroy()
ReconDestroy ==
  /\ ~rc.destroyed
  /\ rc' = ReconnectDestroy(Ran(rc, "destroy", "destroy"))
  /\ UNCHANGED <<logVars, syncVars, hb>>

ReconNext ==
  \/ ReconConnect
  \/ Established
  \/ \E reason \in {"none", "error"} : Dropped(reason)
  \/ \E reason \in DisconnectReasons \ {"freeze"} : DisconnectCall(reason)
  \/ \E kind \in ErrorKinds : RecvError(kind)
  \/ TimerFire
  \/ \E v \in BOOLEAN : SetHidden(v)
  \/ \E v \in BOOLEAN, event \in {"online", "resume"} : SetOnLine(v, event)
  \/ Freeze
  \/ SetReconnecting
  \/ ReconDestroy

\* --------------------------------------------------------------- heartbeat

\* The ping and timeout options, in units of 100 ms
DefaultHeartbeat == [ping |-> 3, timeout |-> 1]
MaxHbDelay == 3
HbOptions == {[ping |-> p, timeout |-> t] : p, t \in 1..MaxHbDelay}

\* The time since the last message is not counted beyond this
IdleCap == 2 * MaxHbDelay + 1

\* The JavaScript values of the messages: numbers, strings, [] and {}
Num(n) == [t |-> "number", n |-> n, s |-> ""]
Str(s) == [t |-> "string", n |-> 0, s |-> s]
EmptyArray == [t |-> "array", n |-> 0, s |-> ""]
EmptyObject == [t |-> "object", n |-> 0, s |-> ""]

Digits == <<"0", "1", "2", "3", "4", "5", "6", "7", "8", "9">>

RECURSIVE NumberToString(_)
NumberToString(n) ==
  IF n < 10 THEN Digits[n + 1]
  ELSE NumberToString(n \div 10) \o Digits[(n % 10) + 1]

\* JSON.stringify of a value (the strings here need no escaping)
JsonValue(v) ==
  CASE v.t = "number" -> NumberToString(v.n)
    [] v.t = "string" -> "\"" \o v.s \o "\""
    [] v.t = "array"  -> "[]"
    [] OTHER          -> "{}"

RECURSIVE JsonItems(_)
JsonItems(vs) ==
  IF Len(vs) = 1 THEN JsonValue(vs[1])
  ELSE JsonValue(Head(vs)) \o "," \o JsonItems(Tail(vs))

\* JSON.stringify(message), a message being an array
JsonStringify(msg) == "[" \o JsonItems(msg) \o "]"

\* The messages of the tests; `connect` is cut to its name
PingMsg(n) == <<Str("ping"), Num(n)>>
PongMsg(n) == <<Str("pong"), Num(n)>>
Duilian == <<Str("duilian"), Str("")>>
ConnectMsg == <<Str("connect")>>
ConnectedMsg == <<Str("connected")>>
ErrorMsg(kind, msg) == <<Str("error"), Str(kind), Str(JsonStringify(msg))>>
WrongMessages ==
  {<<Str("ping")>>, <<Str("ping"), Str("abc")>>, <<Str("ping"), EmptyArray>>,
   <<Str("pong")>>, <<Str("pong"), Str("abc")>>, <<Str("pong"), EmptyObject>>}

\* A node that is not connected
NewHeartbeat(opts) ==
  [opts |-> opts, connected |-> FALSE, authenticated |-> FALSE,
   pingIn |-> NoTimer, timeoutIn |-> NoTimer, age |-> NoTimer,
   idle |-> NoTimer, quiet |-> NoTimer,
   last |-> [op |-> "new", error |-> "none", reason |-> "none",
             got |-> <<>>, sent |-> <<>>,
             idle |-> NoTimer, quiet |-> NoTimer]]

\* What ran last on the node's heartbeat, the message it got and the ones
\* it sent, and the two counts of time as they were before: idle, the time
\* since the node sent a message or got the answer to one (`connected`,
\* `pong`), and quiet, the time since it sent or got any message
HbRan(h, op) ==
  [h EXCEPT !.last = [op |-> op, error |-> "none", reason |-> "none",
                      got |-> <<>>, sent |-> <<>>,
                      idle |-> h.idle, quiet |-> h.quiet]]

\* The node has sent these messages
Sent(h, msgs) == [h EXCEPT !.last.sent = msgs, !.idle = 0, !.quiet = 0]

\* The node has got a message
Received(h, msg) ==
  [h EXCEPT !.last.got = msg, !.quiet = 0,
            !.idle = IF msg[1].s \in {"connected", "pong"} THEN 0 ELSE @]

\* A delayPing() that does not wait for the authentication
DelayPing_NoAuth(h) ==
  IF h.opts.ping > 0 THEN [h EXCEPT !.pingIn = h.opts.ping] ELSE h

\* delayPing(): the ping timer starts anew, once the node is authenticated
DelayPing(h) ==
  IF h.authenticated /\ h.opts.ping > 0
  THEN [h EXCEPT !.pingIn = h.opts.ping]
  ELSE h

\* sendPing(): the ping goes out, the ping timer is off until an answer or
\* another message, and the timeout timer runs unless an earlier ping waits
SendPing(h) ==
  Sent(IF h.timeoutIn = NoTimer
       THEN [h EXCEPT !.pingIn = NoTimer, !.timeoutIn = h.opts.timeout, !.age = 0]
       ELSE [h EXCEPT !.pingIn = NoTimer],
       <<PingMsg(1)>>)

\* A pong that leaves the timeout timer running
OnPong_KeepTimeout(h) == DelayPing([h EXCEPT !.age = NoTimer])

\* The `pong` message: the timeout timer stops, the ping timer starts anew
OnPong(h) == DelayPing([h EXCEPT !.timeoutIn = NoTimer, !.age = NoTimer])

\* The timeout timer is due: a timeout error and disconnect('timeout')
OnTimeout(h) ==
  [NewHeartbeat(h.opts) EXCEPT
     !.last = [HbRan(h, "timeout").last EXCEPT
                 !.error = "timeout", !.reason = "timeout"]]

\* A check that looks for the payload but not at its type
WrongFormat_MissingOnly(msg) == msg[1].s \in {"ping", "pong"} /\ Len(msg) < 2

\* The check of `ping` and `pong`: the payload is there and is a number
WrongFormat(msg) ==
  /\ msg[1].s \in {"ping", "pong"}
  /\ Len(msg) < 2 \/ msg[2].t # "number"

\* sendError(): ['error', kind, JSON.stringify(message)] goes out and the
\* node disconnects
SendError(h, kind, msg) ==
  [NewHeartbeat(h.opts) EXCEPT
     !.last = [h.last EXCEPT !.error = kind, !.reason = "error",
                             !.sent = <<ErrorMsg(kind, msg)>>]]

\* A listener of `message` that leaves the ping timer alone when a message
\* other than ping and pong comes
OnMessage_NoDelay(h, msg) ==
  IF WrongFormat(msg) THEN SendError(h, "wrong-format", msg)
  ELSE IF msg[1].s = "ping" THEN Sent(DelayPing(h), <<PongMsg(msg[2].n)>>)
  ELSE IF msg[1].s = "pong" THEN OnPong(h)
  ELSE h

\* The listener of `message`: the format is checked first; a ping is
\* answered by a pong; every message starts the ping timer anew
OnMessage(h, msg) ==
  IF WrongFormat(msg) THEN SendError(h, "wrong-format", msg)
  ELSE IF msg[1].s = "ping" THEN Sent(DelayPing(h), <<PongMsg(msg[2].n)>>)
  ELSE IF msg[1].s = "pong" THEN OnPong(h)
  ELSE DelayPing(h)

HbInit == hb \in {NewHeartbeat(o) : o \in HbOptions}

\* connection.connect(), and the `connect` message goes out
HbConnect ==
  /\ ~hb.connected
  /\ hb' = Sent(DelayPing([HbRan(hb, "connect") EXCEPT !.connected = TRUE]),
                <<ConnectMsg>>)
  /\ UNCHANGED <<logVars, syncVars, rc>>

\* The handshake is over (`connected` has come)
HbAuthenticated ==
  /\ hb.connected /\ ~hb.authenticated
  /\ hb' = DelayPing(Received([HbRan(hb, "authenticated") EXCEPT
                                 !.authenticated = TRUE], ConnectedMsg))
  /\ UNCHANGED <<logVars, syncVars, rc>>

\* 100 ms pass; no timer is overdue
HbTick ==
  /\ hb.connected
  /\ hb.pingIn # 0 /\ hb.timeoutIn # 0
  /\ hb' = [HbRan(hb, "tick") EXCEPT
              !.pingIn = IF @ = NoTimer THEN @ ELSE @ - 1,
              !.timeoutIn = IF @ = NoTimer THEN @ ELSE @ - 1,
              !.age = IF @ = NoTimer THEN @ ELSE @ + 1,
              !.idle = IF @ = IdleCap THEN @ ELSE @ + 1,
              !.quiet = IF @ = IdleCap THEN @ ELSE @ + 1]
  /\ UNCHANGED <<logVars, syncVars, rc>>

\* The ping timer is due
HbPingFire ==
  /\ hb.connected
  /\ hb.pingIn = 0
  /\ hb' = SendPing(HbRan(hb, "ping"))
  /\ UNCHANGED <<logVars, syncVars, rc>>

\* The timeout timer is due
HbTimeoutFire ==
  /\ hb.connected
  /\ hb.timeoutIn = 0
  /\ hb' = OnTimeout(hb)
  /\ UNCHANGED <<logVars, syncVars, rc>>

\* ['pong', 1] comes
HbRecvPong ==
  /\ hb.connected /\ hb.authenticated
  /\ hb' = OnMessage(Received(HbRan(hb, "pong"), PongMsg(1)), PongMsg(1))
  /\ UNCHANGED <<logVars, syncVars, rc>>

\* ['ping', 1] comes
HbRecvPing ==
  /\ hb.connected /\ hb.authenticated
  /\ hb' = OnMessage(Received(HbRan(hb, "recvPing"), PingMsg(1)), PingMsg(1))
  /\ UNCHANGED <<logVars, syncVars, rc>>

\* Another message comes
HbRecvOther ==
  /\ hb.connected /\ hb.authenticated
  /\ hb' = OnMessage(Received(HbRan(hb, "message"), Duilian), Duilian)
  /\ UNCHANGED <<logVars, syncVars, rc>>

\* A ping or a pong without a number comes, authenticated or not
HbRecvWrong(msg) ==
  /\ hb.connected
  /\ hb' = OnMessage(Received(HbRan(hb, "wrong"), msg), msg)
  /\ UNCHANGED <<logVars, syncVars, rc>>

\* The node sends another message
HbSendOther ==
  /\ hb.connected /\ hb.authenticated
  /\ hb' = Sent(DelayPing(HbRan(hb, "send")), <<Duilian>>)
  /\ UNCHANGED <<logVars, syncVars, rc>>

\* The peer closes the connection
HbDropped ==
  /\ hb.connected
  /\ hb' = [NewHeartbeat(hb.opts) EXCEPT !.last = HbRan(hb, "dropped").last]
  /\ UNCHANGED <<logVars, syncVars, rc>>

HbNext ==
  \/ HbConnect
  \/ HbAuthenticated
  \/ HbTick
  \/ HbPingFire
  \/ HbTimeoutFire
  \/ HbRecvPong
  \/ HbRecvPing
  \/ HbRecvOther
  \/ \E msg \in WrongMessages : HbRecvWrong(msg)
  \/ HbSendOther
  \/ HbDropped

\* -------------------------------------------------------------------- sync

\* The client node and the server node, and the node ids of their Logs
Nodes == {"A", "B"}
Client == "A"
Server == "B"
Peer(n) == IF n = "A" THEN "B" ELSE "A"
NodeIdOf == [A |-> "n1", B |-> "n2"]

\* The metas the application passes to add() on a synchronized Log, and
\* the readings of the clock at these calls
SyncMetas == {EmptyObj, [reasons |-> <<"r1">>]}
SyncTimes == {0, 1}

\* The client's clock when it sent `connect` and when it got `connected`,
\* and the server's clock readings [T0, T1] in `connected`
LocalSend == 0
LocalReceive == 2
ServerTimes == {<<1, 1>>, <<3, 3>>}

\* timeFix = ((localSend + localReceive) - (T0 + T1)) / 2
TimeFixOf(localSend, localReceive, t0, t1) ==
  ((localSend + localReceive) - (t0 + t1)) \div 2

\* log.add(action, meta) with its continuation: the Log afterwards and the
\* meta the `add` event carried (false when there was none)
ApplyAdd(lg, lsn, action, meta, now) ==
  LET o == LogAdd(lg, lsn, action, meta, now)
  IN  [log |-> o.log,
       result |-> IF o.deferred THEN AddThen(action, o.result).result ELSE o.result]

\* The entries of a `sync` message added to the receiver's Log, meta.time
\* moved by the receiver's timeFix
RECURSIVE ReceiveEntries(_, _, _, _)
ReceiveEntries(lg, lsn, entries, fix) ==
  IF entries = <<>> THEN lg
  ELSE LET e == Head(entries)
           m == [e[2] EXCEPT !.time = @ + fix]
       IN  ReceiveEntries(ApplyAdd(lg, lsn, e[1], m, 0).log, lsn, Tail(entries), fix)

\* An entry as it is sent: meta.time moved by -timeFix
OutEntry(e, fix) == <<e[1], [e[2] EXCEPT !.time = @ - fix]>>

RECURSIVE Reverse(_)
Reverse(s) == IF s = <<>> THEN <<>> ELSE Append(Reverse(Tail(s)), Head(s))

\* syncSince(n): the stored entries with added > n, the oldest first
Backlog(st, n) == Reverse(SelectSeq(st.entries, LAMBDA e : e[2].added > n))

\* What syncSince(lastSent) sends: one `sync` with the backlog, if any
SyncSinceMsgs(st, nd) ==
  LET es == Backlog(st, nd.lastSent)
  IN  IF es = <<>> THEN <<>>
      ELSE <<[tag |-> "sync", synced |-> es[Len(es)][2].added,
              entries |-> [i \in 1..Len(es) |-> OutEntry(es[i], nd.timeFix)]]>>

NewNode == [connected |-> FALSE, authenticated |-> FALSE, timeFix |-> 0,
            syncing |-> 0, lastSent |-> 0, lastReceived |-> 0]

SyncInit ==
  /\ logs = [n \in Nodes |-> [nodeId |-> NodeIdOf[n], lastTime |-> 0, sequence |-> 0,
                              store |-> [entries |-> <<>>, lastAdded |-> 0]]]
  /\ node = [n \in Nodes |-> NewNode]
  /\ chan = [n \in Nodes |-> <<>>]
  /\ recv = [n \in Nodes |-> [once |-> {}, again |-> {}]]
  /\ sbudget = [adds |-> 0, faults |-> 0]

Init ==
  /\ LogInit
  /\ SyncInit
  /\ rc = NewReconnect(DefaultOptions, "accept", FALSE)
  /\ hb = NewHeartbeat(DefaultHeartbeat)

\* The connection opens; the client sends `connect`
Connect ==
  /\ ~node[Client].connected
  /\ node' = [n \in Nodes |-> [node[n] EXCEPT !.connected = TRUE]]
  /\ chan' = [chan EXCEPT ![Server] =
                Append(@, [tag |-> "connect", synced |-> logs[Client].store.lastAdded])]
  /\ UNCHANGED <<logs, recv, sbudget>>
  /\ UNCHANGED <<logVars, rc, hb>>

\* The server gets `connect`: it records the client's synced, answers
\* `connected` and streams its backlog
RecvConnect(t) ==
  /\ node[Server].connected
  /\ chan[Server] # <<>>
  /\ Head(chan[Server]).tag = "connect"
  /\ LET nd   == [node[Server] EXCEPT !.authenticated = TRUE,
                                      !.lastReceived = Head(chan[Server]).synced]
         msgs == SyncSinceMsgs(logs[Server].store, nd)
     IN  /\ node' = [node EXCEPT ![Server] = [nd EXCEPT !.syncing = @ + Len(msgs)]]
         /\ chan' = [chan EXCEPT ![Server] = Tail(@),
                                 ![Client] = @ \o <<[tag |-> "connected", time |-> t]>> \o msgs]
  /\ UNCHANGED <<logs, recv, sbudget>>
  /\ UNCHANGED <<logVars, rc, hb>>

\* The client gets `connected`: it computes timeFix and streams its backlog
RecvConnected ==
  /\ node[Client].connected
  /\ chan[Client] # <<>>
  /\ Head(chan[Client]).tag = "connected"
  /\ LET t    == Head(chan[Client]).time
         nd   == [node[Client] EXCEPT
                    !.authenticated = TRUE,
                    !.timeFix = TimeFixOf(LocalSend, LocalReceive, t[1], t[2])]
         msgs == SyncSinceMsgs(logs[Client].store, nd)
     IN  /\ node' = [node EXCEPT ![Client] = [nd EXCEPT !.syncing = @ + Len(msgs)]]
         /\ chan' = [chan EXCEPT ![Client] = Tail(@), ![Server] = @ \o msgs]
  /\ UNCHANGED <<logs, recv, sbudget>>
  /\ UNCHANGED <<logVars, rc, hb>>

\* What getting `sync` does to the node and to the messages in flight: the
\* cursor is recorded and `synced` is the answer
SyncReply(n) ==
  /\ node[n].connected
  /\ chan[n] # <<>>
  /\ Head(chan[n]).tag = "sync"
  /\ chan' = [chan EXCEPT ![n] = Tail(@),
                          ![Peer(n)] = Append(@, [tag |-> "synced",
                                                  synced |-> Head(chan[n]).synced])]
  /\ node' = [node EXCEPT ![n].lastReceived = Head(chan[n]).synced]

\* A node gets `sync`: it adds every entry to its Log, records the cursor
\* and answers `synced`
RecvSync(n) ==
  /\ SyncReply(n)
  /\ LET msg == Head(chan[n])
         got == {msg.entries[i][2].id : i \in 1..Len(msg.entries)}
     IN  /\ recv' = [recv EXCEPT ![n] = [once |-> @.once \cup got,
                                         again |-> @.again \cup (@.once \cap got)]]
         /\ logs' = [logs EXCEPT ![n] =
                       ReceiveEntries(@, listener, msg.entries, node[n].timeFix)]
  /\ UNCHANGED sbudget
  /\ UNCHANGED <<logVars, rc, hb>>

\* A node gets `synced`: one send less in flight; at 0 it records lastSent
RecvSynced(n) ==
  /\ node[n].connected
  /\ chan[n] # <<>>
  /\ Head(chan[n]).tag = "synced"
  /\ LET left == IF node[n].syncing > 0 THEN node[n].syncing - 1 ELSE 0
     IN  node' = [node EXCEPT ![n].syncing = left,
                              ![n].lastSent = IF left = 0 THEN Head(chan[n]).synced ELSE @]
  /\ chan' = [chan EXCEPT ![n] = Tail(@)]
  /\ UNCHANGED <<logs, recv, sbudget>>
  /\ UNCHANGED <<logVars, rc, hb>>

\* The application adds an action to the Log of node n; the node's `add`
\* listener sends it to the peer when the node is authenticated
AppAdd(n, meta, now) ==
  /\ sbudget.adds < MaxSyncAdds
  /\ LET r    == ApplyAdd(logs[n], listener, TypedAction, meta, now)
         sent == r.result # JsFalse /\ node[n].connected /\ node[n].authenticated
         num  == IF "added" \in DOMAIN r.result THEN r.result.added
                 ELSE r.log.store.lastAdded
     IN  /\ logs' = [logs EXCEPT ![n] = r.log]
         /\ node' = IF sent THEN [node EXCEPT ![n].syncing = @ + 1] ELSE node
         /\ chan' = IF sent
                    THEN [chan EXCEPT ![Peer(n)] =
                            Append(@, [tag |-> "sync", synced |-> num,
                                       entries |-> <<OutEntry(<<TypedAction, r.result>>,
                                                              node[n].timeFix)>>])]
                    ELSE chan
  /\ sbudget' = [sbudget EXCEPT !.adds = @ + 1]
  /\ UNCHANGED recv
  /\ UNCHANGED <<logVars, rc, hb>>

\* The connection delivers the `sync` that is next for node n twice
Duplicate(n) ==
  /\ sbudget.faults < MaxFaults
  /\ chan[n] # <<>>
  /\ Head(chan[n]).tag = "sync"
  /\ chan' = [chan EXCEPT ![n] = <<Head(@)>> \o @]
  /\ sbudget' = [sbudget EXCEPT !.faults = @ + 1]
  /\ UNCHANGED <<logs, node, recv>>
  /\ UNCHANGED <<logVars, rc, hb>>

\* The connection breaks: the messages in flight are lost, the sends in
\* flight abandoned
Disconnect ==
  /\ sbudget.faults < MaxFaults
  /\ node[Client].connected
  /\ node' = [n \in Nodes |-> [node[n] EXCEPT !.connected = FALSE,
                                              !.authenticated = FALSE,
                                              !.syncing = 0]]
  /\ chan' = [n \in Nodes |-> <<>>]
  /\ sbudget' = [sbudget EXCEPT !.faults = @ + 1]
  /\ UNCHANGED <<logs, recv>>
  /\ UNCHANGED <<logVars, rc, hb>>

LogNext ==
  \/ \E now \in 0..MaxTime : GenerateIdCall(now)
  \/ \E a \in Actions, m \in InputMetas, now \in 0..MaxTime : AddCall(a, m, now)
  \/ \E k \in 1..MaxCalls : AddResolve(k)
  \/ \E r \in Reasons, c \in Criterias : RemoveReasonCall(r, c)
  \/ \E o \in EachOpts, n \in 0..(MaxCalls - 1) : EachCall(o, n)
  \/ \E i \in 1..MaxCalls : IterPage(i)
  \/ \E id \in ExtIds, d \in Diffs : ChangeMetaCall(id, d)

Next == LogNext

\* One Log and the calls of its methods
Spec == Init /\ [][Next]_vars

\* each() alone, on a Log that holds entries
EachNext ==
  \/ \E opts \in EachOpts, stopAt \in 0..MaxEntries : EachCall(opts, stopAt)
  \/ \E i \in 1..MaxCalls : IterPage(i)

EachStart ==
  /\ EachInit
  /\ SyncInit
  /\ rc = NewReconnect(DefaultOptions, "accept", FALSE)
  /\ hb = NewHeartbeat(DefaultHeartbeat)

EachSpec == EachStart /\ [][EachNext]_vars

\* The handshake and the acknowledgements
Control ==
  \/ Connect
  \/ \E t \in ServerTimes : RecvConnect(t)
  \/ RecvConnected
  \/ \E n \in Nodes : RecvSynced(n)

\* What the two nodes do over a connection that neither repeats nor loses
ReliableNext ==
  \/ Connect
  \/ \E t \in ServerTimes : RecvConnect(t)
  \/ RecvConnected
  \/ \E n \in Nodes : RecvSynced(n)
  \/ \E n \in Nodes : RecvSync(n)
  \/ \E n \in Nodes, m \in SyncMetas, now \in SyncTimes : AppAdd(n, m, now)

SyncNext ==
  \/ ReliableNext
  \/ \E n \in Nodes : Duplicate(n)
  \/ Disconnect

\* The two nodes before they connect; no listener is registered on their Logs
SyncStart == Init /\ listener = "none"

\* Two nodes over a connection that may repeat a `sync` and may break
SyncSpec == SyncStart /\ [][SyncNext]_vars

\* Every message in flight is handled in the end. The steps that satisfy
\* SyncReply(n) are the RecvSync(n) steps, and RecvSync(n) is enabled when
\* SyncReply(n) is.
Delivery ==
  /\ WF_vars(Control)
  /\ \A n \in Nodes : WF_<<node, chan>>(SyncReply(n))

\* Two nodes over a reliable connection that delivers every message
FairSyncSpec == SyncStart /\ [][ReliableNext]_vars /\ Delivery

\* The supervisor alone; the timer fires when it is due, and a connection
\* on the way is established unless it breaks
ReconStart ==
  /\ LogInit
  /\ listener = "none"
  /\ SyncInit
  /\ ReconInit
  /\ hb = NewHeartbeat(DefaultHeartbeat)

ReconFair == WF_rc(TimerFire) /\ SF_rc(Established)

ReconSpec == ReconStart /\ [][ReconNext]_vars /\ ReconFair

\* The largest attempt count nextDelay() is asked for
MaxBackoff == 99

BackoffOptions ==
  ReconOptions \cup {[attempts |-> Infinity, minDelay |-> 1000, maxDelay |-> 4200]}

BackoffInit ==
  /\ LogInit
  /\ listener = "none"
  /\ SyncInit
  /\ rc \in {NewReconnect(o, "accept", FALSE) : o \in BackoffOptions}
  /\ hb = NewHeartbeat(DefaultHeartbeat)

\* recon.attempts = k; recon.nextDelay()
NextDelayCall(k, j) ==
  /\ rc' = [rc EXCEPT !.attempts = k,
                      !.last = [op |-> "nextDelay", dialed |-> FALSE,
                                reason |-> "none", jitter |-> j * k * 100,
                                delay |-> NextDelay(rc.opts, k, j)]]
  /\ UNCHANGED <<logVars, syncVars, hb>>

BackoffNext == \E k \in 0..MaxBackoff, j \in JitterSteps : NextDelayCall(k, j)

\* nextDelay() alone, for every attempt count
BackoffSpec == BackoffInit /\ [][BackoffNext]_vars

\* The heartbeat alone; time passes, and a timer that is due fires
HbStart ==
  /\ LogInit
  /\ listener = "none"
  /\ SyncInit
  /\ rc = NewReconnect(DefaultOptions, "accept", FALSE)
  /\ HbInit

HbFair == WF_hb(HbTick) /\ WF_hb(HbPingFire) /\ WF_hb(HbTimeoutFire)

HbSpec == HbStart /\ [][HbNext]_vars /\ HbFair

\* ------------------------------------------------------------------ claims

\* s without every x
Without(s, x) == SelectSeq(s, LAMBDA y : y # x)

\* The `add` events emitted for id with at least one reason
StoredAdds(evs, id) ==
  {k \in DOMAIN evs : /\ evs[k].name = "add"
                      /\ evs[k].meta.id = id
                      /\ Len(evs[k].meta.reasons) >= 1}

\* The step is the synchronous part of an add() that did not throw
IsAddStep == last'.op = "add" /\ ~last'.threw

\* The step is one page of a removeReason
IsRemovePage == last'.op = "page" /\ last'.kind = "removeReason"

PageIds(page) == {page[i][2].id : i \in 1..Len(page)}

\* C1: every id generateId returns (called directly or by add) is greater
\* than every id it returned before, whatever the clock readings; the time
\* of the id returned last is lastTime, and the times never decrease.
C1_IdMonotonicity ==
  /\ \A i, j \in 1..Len(ids) :
       i < j => IdOlder(ids[i], ids[j]) /\ ids[i][1] <= ids[j][1]
  /\ ids # <<>> => ids[Len(ids)][1] = lastTime

\* C1 witness: three ids, the last two from clock readings that were not
\* after lastTime, the last one made by add
C1_Witness ==
  /\ Len(ids) = 2
  /\ ids[2] = <<1, NodeId, 1>>
  /\ last.op = "add"

\* The meta without the keys
Omit(obj, keys) == [k \in DOMAIN obj \ keys |-> obj[k]]

\* Both nodes passed the handshake
Handshaken == \A n \in Nodes : node[n].authenticated

\* Nothing is in flight and every send was acknowledged
Quiescent ==
  /\ Handshaken
  /\ \A n \in Nodes : chan[n] = <<>> /\ node[n].syncing = 0

\* meta.time of node n's entry with n's timeFix taken off
WireTime(n, meta) == meta.time - node[n].timeFix

\* Every entry with a reason in one Log is in the other with the same
\* action and the same meta but for the keys in `local`, meta.time up to
\* timeFix
SameEntries(local) ==
  \A n \in Nodes :
    \A i \in 1..Len(logs[n].store.entries) :
      LET e == logs[n].store.entries[i]
      IN  Len(e[2].reasons) >= 1 =>
            \E j \in 1..Len(logs[Peer(n)].store.entries) :
              LET f == logs[Peer(n)].store.entries[j]
              IN  /\ f[1] = e[1]
                  /\ f[2].id = e[2].id
                  /\ Omit(f[2], local \cup {"time"}) = Omit(e[2], local \cup {"time"})
                  /\ WireTime(Peer(n), f[2]) = WireTime(n, e[2])

\* C2 as stated: in a quiescent state after the handshake every entry with a
\* reason in one Log is in the other Log with the same id and the same meta,
\* meta.time up to timeFix.
C2_SameMeta == Quiescent => SameEntries({})

\* C2: once the handshake has succeeded the two nodes reach a quiescent state,
\* and in every quiescent state each entry with a reason in one Log is in the
\* other Log with the same action, the same id and the same meta but for
\* `added`, which every store assigns for itself, meta.time up to timeFix.
C2_Convergence ==
  /\ Handshaken ~> (Quiescent /\ SameEntries({"added"}))
  /\ [](Quiescent => SameEntries({"added"}))

\* Quiescent after both applications have added an action with a reason, the
\* client's timeFix is not 0, and the two stores number one entry differently
C2_Witness ==
  /\ Quiescent
  /\ node[Client].timeFix # 0
  /\ Len(logs[Client].store.entries) = 2
  /\ Len(logs[Server].store.entries) = 2
  /\ \E i, j \in 1..2 :
       /\ logs[Client].store.entries[i][2].id = logs[Server].store.entries[j][2].id
       /\ logs[Client].store.entries[i][2].added # logs[Server].store.entries[j][2].added

\* C3: however often an (action, meta) pair reaches a node in `sync` messages,
\* the node's store holds at most one entry for its meta.id.
C3_AtMostOnce ==
  \A n \in Nodes :
    \A i, j \in 1..Len(logs[n].store.entries) :
      logs[n].store.entries[i][2].id = logs[n].store.entries[j][2].id => i = j

\* A node received the same id in `sync` messages twice and stores it once
C3_Witness ==
  \E n \in Nodes :
    \E id \in recv[n].again :
      Cardinality({k \in 1..Len(logs[n].store.entries) :
                     logs[n].store.entries[k][2].id = id}) = 1

\* C4: an add() with a reason and an id that is stored gets false from
\* store.add, resolves to false and emits no `add`; while nothing was
\* removed, the add() calls with one id and a reason emit `add` at most
\* once, and exactly once when all of them have resolved.
C4_LogUniqueness ==
  [][ /\ (IsAddStep /\ Len(last'.meta.reasons) >= 1 /\ StoreHas(store, last'.meta.id))
         => /\ store' = store
            /\ last'.deferred /\ last'.result = JsFalse
            /\ events' = Append(events, Ev("before", last'.action, last'.meta))
      /\ (last'.op = "addThen" /\ last'.value = JsFalse)
         => events' = events /\ last'.result = JsFalse
      /\ (\A i \in 1..Len(iters') : iters'[i].kind # "removeReason")
         => \A k \in DOMAIN events' :
              (events'[k].name = "before" /\ Len(events'[k].meta.reasons) >= 1)
              => LET id == events'[k].meta.id
                 IN  /\ Cardinality(StoredAdds(events', id)) <= 1
                     /\ (\A p \in 1..Len(pending') : pending'[p].meta.id # id)
                        => Cardinality(StoredAdds(events', id)) = 1
    ]_vars

\* C4 witness: two add() calls with one id and a reason have resolved, the
\* second to false
C4_Witness ==
  /\ last.op = "addThen"
  /\ last.value = JsFalse
  /\ Len(last.meta.reasons) >= 1
  /\ pending = <<>>
  /\ Cardinality(StoredAdds(events, last.meta.id)) = 1

\* The `add` events of actions that had no reason and a generated id
BroadcastOnly ==
  {k \in DOMAIN events : /\ events[k].name = "add"
                         /\ events[k].meta.reasons = <<>>
                         /\ InSeq(events[k].meta.id, ids)}

\* C5: an add() with no meta.id and no reasons after `before` emits `add`
\* once, resolves at once to its meta, which has no `added`, leaves the
\* store alone, and no each() ever visits the action.
C5_Reasonless ==
  [][ /\ (IsAddStep /\ last'.newId /\ last'.meta.reasons = <<>>)
         => /\ store' = store
            /\ pending' = pending
            /\ ~last'.deferred /\ last'.result = last'.meta
            /\ "added" \notin DOMAIN last'.meta
            /\ events' = events \o <<Ev("before", last'.action, last'.meta),
                                     Ev("add", last'.action, last'.meta)>>
      /\ \A k \in BroadcastOnly' :
           LET id == events'[k].meta.id
           IN  /\ ~StoreHas(store', id)
               /\ \A i \in 1..Len(iters') : id \notin PageIds(iters'[i].visited)
               /\ \A j \in DOMAIN events' :
                    (events'[j].name = "add" /\ events'[j].meta.id = id) => j = k
    ]_vars

\* C5 witness: an action with no reason and a generated id was emitted, and
\* an each() has run to its end
C5_Witness ==
  /\ BroadcastOnly # {}
  /\ last.op = "page"
  /\ \E i \in 1..Len(iters) : iters[i].kind = "each" /\ iters[i].done

\* C6: a removeReason(reason) with no criteria that completes with one page
\* removes every entry of the page whose only reason is `reason`, leaves the
\* others of the page stored with their reasons without `reason`, and leaves
\* every other entry as it was.
C6_RemoveReasonEffect ==
  [][ (IsRemovePage /\ last'.criteria = EmptyObj /\ last'.first /\ last'.done)
      => \A i \in 1..Len(store.entries) :
           LET e == store.entries[i]
               id == e[2].id
           IN  IF id \in PageIds(last'.page) /\ InSeq(last'.reason, e[2].reasons)
               THEN IF Without(e[2].reasons, last'.reason) = <<>>
                    THEN ~StoreHas(store', id)
                    ELSE /\ StoreHas(store', id)
                         /\ StoreById(store', id) =
                              <<e[1], [e[2] EXCEPT !.reasons = Without(@, last'.reason)]>>
               ELSE StoreHas(store', id) /\ StoreById(store', id) = e
    ]_vars

\* C7: every entry the store holds has at least one reason.
C7_StoredHaveReasons ==
  \A i \in 1..Len(store.entries) : Len(store.entries[i][2].reasons) >= 1

\* C8: removeReason(reason, {minAdded: m}) takes the reason only from entries
\* whose added is bigger than m, removeReason(reason, {maxAdded: M}) only
\* from entries whose added is lower than M; an entry outside the range is
\* left as it was. Stated for the entries strictly outside (added below m,
\* added above M), which no reading of the bounds puts in the range.
C8_RemoveReasonCriteria ==
  [][ IsRemovePage
      => \A i \in 1..Len(store.entries) :
           LET e == store.entries[i]
               c == last'.criteria
               outside == \/ "minAdded" \in DOMAIN c /\ e[2].added < c.minAdded
                          \/ "maxAdded" \in DOMAIN c /\ e[2].added > c.maxAdded
           IN  outside => StoreHas(store', e[2].id) /\ StoreById(store', e[2].id) = e
    ]_vars

\* How many `clean` events were emitted for the entry
CleanCount(evs, entry) ==
  Cardinality({k \in DOMAIN evs : /\ evs[k].name = "clean"
                                  /\ evs[k].action = entry[1]
                                  /\ evs[k].meta.id = entry[2].id})

\* C9: a step emits `clean` once for every entry it removes from the store
\* and for no entry that stays stored.
C9_CleanEvent ==
  [][ \A i \in 1..Len(store.entries) :
        LET e == store.entries[i]
        IN  CleanCount(events', e) =
              CleanCount(events, e) + (IF StoreHas(store', e[2].id) THEN 0 ELSE 1)
    ]_vars

\* The step is a changeMeta(id, diff) that did not throw
IsChangeMeta(id, diff) == ChangeMetaCall(id, diff) /\ ~last'.threw

Identities(st) == [i \in 1..Len(st.entries) |->
                     <<st.entries[i][2].id, st.entries[i][2].added>>]

\* C11: changeMeta(id, diff) throws exactly when diff has the key `id` or
\* `added`; a call that throws leaves the store and the events alone, and no
\* call changes the id or the added of a stored entry.
C11_ChangeMetaThrows ==
  [][ \A id \in ExtIds, d \in Diffs :
        ChangeMetaCall(id, d)
        => /\ last'.threw <=> ("id" \in DOMAIN d \/ "added" \in DOMAIN d)
           /\ last'.threw => (store' = store /\ events' = events)
           /\ Identities(store') = Identities(store)
    ]_vars

\* C11 witness: a changeMeta has thrown while its id was stored
C11_Witness ==
  /\ last.op = "changeMeta"
  /\ last.threw
  /\ \E id \in ExtIds : StoreHas(store, id)

\* The entries of the pages, one after the other
RECURSIVE Flatten(_)
Flatten(pages) ==
  IF pages = <<>> THEN <<>> ELSE Head(pages) \o Flatten(Tail(pages))

\* C12: each() calls the callback on the entries in page order; once the
\* callback has returned false it is not called again, no further page is
\* asked for and the promise resolves; otherwise every entry of every page is
\* visited exactly once and the promise resolves after the page without `next`.
C12_EachOrder ==
  [][ \A i \in 1..Len(iters) :
        (iters[i].kind = "each" /\ iters'[i] # iters[i]) =>
          LET it    == iters[i]
              nx    == iters'[i]
              page  == Head(it.pages)
              calls == Len(nx.visited) - Len(it.visited)
              stops == it.stopAt \in (Len(it.visited) + 1)..(Len(it.visited) + Len(page))
          IN  /\ ~it.done
              /\ calls \in 0..Len(page)
              /\ nx.visited = it.visited \o SubSeq(page, 1, calls)
              /\ nx.done => nx.pages = <<>>
              /\ IF stops
                 THEN Len(nx.visited) = it.stopAt /\ nx.done
                 ELSE /\ calls = Len(page)
                      /\ nx.done = (Len(it.pages) = 1)
                      /\ nx.visited \o Flatten(nx.pages)
                           = it.visited \o Flatten(it.pages)
                      /\ nx.done =>
                           /\ Len(nx.visited) = Len(store'.entries)
                           /\ PageIds(nx.visited) = StoreIds(store')
    ]_vars

\* C12 witness: on a Log of three entries one each() was stopped by its
\* callback in the middle of the first page, and another went through both
\* pages to the end
C12_Witness ==
  /\ Len(store.entries) = 3
  /\ \E i, j \in 1..Len(iters) :
        /\ iters[i].kind = "each" /\ iters[i].stopAt = 1
        /\ iters[i].done /\ Len(iters[i].visited) = 1
        /\ iters[j].kind = "each" /\ iters[j].stopAt = 0
        /\ iters[j].done /\ Len(iters[j].visited) = 3

\* The step is a `disconnect` of the wrapped connection that was connected
\* or on the way, and its reason
IsDisconnect ==
  /\ rc'.last.op \in {"dropped", "disconnect", "freeze"}
  /\ rc.connected \/ rc.connecting

\* The values nextDelay() can return after k attempts
Delays(k) == {NextDelay(rc.opts, k, j) : j \in JitterSteps}

\* No connect() of the wrapped connection without `reconnecting`, unless
\* the application calls connect()
NoDialWhenDisabled ==
  (~rc.reconnecting /\ rc'.last.op # "connect") => ~rc'.last.dialed

\* C13 as stated: a disconnect with any reason but destroy and protocol,
\* while reconnecting is and stays true, schedules a reconnect after
\* nextDelay() ms, and the timer then calls connect.
C13_Trigger ==
  [][ /\ (IsDisconnect /\ rc'.last.reason \notin {"destroy", "protocol"}
            /\ rc.reconnecting /\ rc'.reconnecting)
           => rc'.timer \in Delays(rc.attempts)
      /\ (rc'.last.op = "timer" /\ CanReconnect(rc)) => rc'.last.dialed
      /\ (IsDisconnect /\ ~rc.reconnecting) => rc'.timer = rc.timer
      /\ NoDialWhenDisabled
    ]_vars

\* The supervisor waits for its timer, is to reconnect, and the page is shown
Pending ==
  rc.timer # NoTimer /\ rc.reconnecting /\ ~rc.hidden /\ rc.peer = "accept"

\* What keeps a pending reconnect from succeeding
Interfered ==
  \/ ~rc.reconnecting
  \/ rc.hidden
  \/ rc.last.op \in {"freeze", "dropped"}
  \/ rc.attempts = MaxAttempts

\* C13: a disconnect with a reason other than destroy, protocol and freeze,
\* while reconnecting is and stays true, schedules a reconnect after
\* nextDelay() ms; the timer calls connect when the supervisor is still
\* disconnected and the document is visible, and the connection is
\* re-established if nothing interferes; a disconnect while reconnecting is
\* false schedules nothing, and without reconnecting only the application's
\* connect() calls the wrapped connect.
C13_ReconnectTrigger ==
  /\ [][ /\ (IsDisconnect /\ rc'.last.reason \notin NoReconnectReasons
               /\ rc.reconnecting /\ rc'.reconnecting)
              => rc'.timer \in Delays(rc.attempts)
         /\ (rc'.last.op = "timer" /\ CanReconnect(rc) /\ ~rc.hidden)
              => rc'.last.dialed
         /\ (IsDisconnect /\ ~rc.reconnecting) => rc'.timer = rc.timer
         /\ NoDialWhenDisabled
       ]_vars
  /\ (Pending ~> (rc.connected \/ Interfered))

\* C13 witness: after a disconnect the timer was due and has called connect
\* on a connection whose peer accepts
C13_Witness ==
  /\ rc.last.op = "timer" /\ rc.last.dialed
  /\ rc.connecting /\ rc.reconnecting
  /\ rc.peer = "accept"
  /\ rc.opts.minDelay = 50

\* C14: disconnect('destroy'), disconnect('protocol') and disconnect() leave
\* reconnecting false; disconnect('timeout') and disconnect('error') leave
\* reconnecting as it was; and while reconnecting is false nothing but the
\* application's connect() calls the wrapped connect or turns reconnecting on.
C14_Gating ==
  [][ /\ (rc'.last.op = "disconnect"
            /\ rc'.last.reason \in {"destroy", "protocol", "none"})
           => (~rc'.reconnecting /\ rc'.timer = rc.timer /\ ~rc'.last.dialed)
      /\ (rc'.last.op = "disconnect" /\ rc'.last.reason \in {"timeout", "error"})
           => rc'.reconnecting = rc.reconnecting
      /\ (~rc.reconnecting /\ rc'.last.op # "connect")
           => (~rc'.last.dialed /\ ~rc'.reconnecting)
    ]_vars

\* C14 witness: disconnect('protocol') has left the supervisor disconnected
\* and not reconnecting, with nothing scheduled, on a visible page online
C14_Witness ==
  /\ rc.last.op = "disconnect"
  /\ rc.last.reason = "protocol"
  /\ ~rc.reconnecting /\ ~rc.connected /\ ~rc.connecting
  /\ rc.timer = NoTimer
  /\ rc.online /\ ~rc.hidden

\* The wrapped connection disconnects at once on every connect, a cap is
\* given, and every attempt since the supervisor was made was counted from
\* one connect() of the application
Capped(r) ==
  r.peer = "reject" /\ r.opts.attempts < Infinity /\ r.attempts = r.dials

\* C15: with options.attempts = N and a wrapped connection that disconnects
\* at once on every connect, the wrapped connect is called N times at most;
\* before the N-th call reconnecting stays true with a reconnect scheduled,
\* with the N-th call reconnecting becomes false, and from then on the wrapped
\* connect is not called again.
C15_AttemptCap ==
  [][ /\ (Capped(rc') /\ rc'.last.dialed)
           => /\ rc'.dials <= rc.opts.attempts
              /\ rc'.reconnecting = (rc'.dials < rc.opts.attempts)
              /\ rc'.dials < rc.opts.attempts => rc'.timer # NoTimer
      /\ (Capped(rc) /\ rc.dials = rc.opts.attempts /\ rc'.last.op # "connect")
           => (~rc'.last.dialed /\ ~rc'.reconnecting)
    ]_vars

\* C15 witness: with attempts = 3 the timer has made the third call of the
\* wrapped connect, and reconnecting is false
C15_Witness ==
  /\ Capped(rc)
  /\ rc.opts.attempts = 3
  /\ rc.dials = 3
  /\ rc.last.op = "timer" /\ rc.last.dialed
  /\ ~rc.reconnecting

Abs(x) == IF x < 0 THEN -x ELSE x

\* C16: nextDelay() never exceeds maxDelay; while minDelay * 2^k is below
\* maxDelay it differs from minDelay * 2^k by k * 200 at most, and from then
\* on it is maxDelay; with minDelay 1000 and maxDelay 5000 it is 5000 for
\* every k from 4 to 99.
C16_Backoff ==
  rc.last.op = "nextDelay" =>
    LET k    == rc.attempts
        d    == rc.last.delay
        base == Doubled(rc.opts.minDelay, k, rc.opts.maxDelay)
    IN  /\ d <= rc.opts.maxDelay
        /\ rc.last.jitter \in 0..(k * 200)
        /\ base < rc.opts.maxDelay => Abs(d - base) <= k * 200
        /\ base >= rc.opts.maxDelay => d = rc.opts.maxDelay
        /\ (rc.opts.minDelay = 1000 /\ rc.opts.maxDelay = 5000 /\ k \in 4..99)
             => d = 5000

\* C16 witness: at the second attempt, with the largest jitter, the delay is
\* 4400 ms, below maxDelay and 400 ms from minDelay * 4
C16_Witness ==
  /\ rc.last.op = "nextDelay"
  /\ rc.opts.minDelay = 1000 /\ rc.opts.maxDelay = 5000
  /\ rc.attempts = 2
  /\ rc.last.jitter = 400
  /\ rc.last.delay = 4400

TerminalKinds == {"wrong-protocol", "wrong-credentials", "wrong-subprotocol"}

\* C17: an `error` message of kind wrong-protocol, wrong-credentials or
\* wrong-subprotocol leaves reconnecting false; the disconnect that follows
\* keeps it false and schedules nothing, and whatever follows short of the
\* application's connect() keeps it false and does not call the wrapped
\* connect.
C17_TerminalErrors ==
  [][ /\ (rc'.last.op = "error" /\ rc'.last.reason \in TerminalKinds)
           => (~rc'.reconnecting /\ ~rc'.last.dialed /\ rc'.timer = rc.timer)
      /\ (rc.last.op = "error" /\ rc.last.reason \in TerminalKinds /\ IsDisconnect)
           => (~rc'.reconnecting /\ ~rc'.last.dialed /\ rc'.timer = rc.timer)
      /\ (rc.last.op = "error" /\ rc.last.reason \in TerminalKinds
            /\ rc'.last.op # "connect")
           => (~rc'.reconnecting /\ ~rc'.last.dialed)
    ]_vars

\* C17 witness: the peer has sent ['error', 'wrong-credentials'] and has not
\* closed the connection yet; reconnecting is false
C17_Witness ==
  /\ rc.last.op = "error"
  /\ rc.last.reason = "wrong-credentials"
  /\ rc.connected
  /\ ~rc.reconnecting

\* The step is a host event that the supervisor listens to
IsHostSignal(names) == rc'.last.op \in names /\ ~rc.destroyed

\* C18 as stated: any of visibilitychange, online and resume calls connect
\* exactly when reconnecting is true, the document is visible, the host is
\* online and the connection is neither connected nor connecting.
C18_HostSignals ==
  [][ IsHostSignal({"visibilitychange", "online", "resume"}) =>
        (rc'.last.dialed <=>
           (CanReconnect(rc) /\ ~rc'.hidden /\ rc'.online))
    ]_vars

\* C18: visibilitychange calls connect exactly when reconnecting is true, the
\* connection is neither connected nor connecting and the document is
\* visible; online and resume call connect exactly when reconnecting is true,
\* the connection is neither connected nor connecting and the host is online.
\* So there is no connect on a visibilitychange to hidden, on resume while
\* offline, or when connect() was never called, and becoming visible while
\* reconnecting connects in the same step, timer or not.
C18_HostSignalsEach ==
  [][ /\ IsHostSignal({"visibilitychange"}) =>
           (rc'.last.dialed <=> (CanReconnect(rc) /\ ~rc'.hidden))
      /\ IsHostSignal({"online", "resume"}) =>
           (rc'.last.dialed <=> (CanReconnect(rc) /\ rc'.online))
      /\ (rc'.last.dialed /\ rc'.last.op \in {"visibilitychange", "online", "resume"})
           => (rc.reconnecting /\ rc'.attempts = rc.attempts + 1)
    ]_vars

\* C18 witness: the document has become visible while the supervisor was
\* waiting for its timer, and connect was called at once
C18_Witness ==
  /\ rc.last.op = "visibilitychange" /\ rc.last.dialed
  /\ ~rc.hidden
  /\ rc.timer # NoTimer
  /\ rc.connecting

\* C19: once destroy() was called the supervisor has no listener on the
\* wrapped connection and none on the host, the wrapped connection is
\* disconnected, no timer is pending, and no later step calls the wrapped
\* connect.
C19_Destroy ==
  [][ rc'.destroyed =>
        /\ rc'.connListeners = 0
        /\ rc'.hostListeners = {}
        /\ ~rc'.connected /\ ~rc'.connecting
        /\ rc'.timer = NoTimer
        /\ ~rc'.last.dialed
    ]_vars

\* C19 witness: destroy() was called on a supervisor that had called connect
\* and was not connected yet; later the host came online on a visible page
C19_Witness ==
  /\ rc.destroyed
  /\ rc.last.op = "online"
  /\ rc.online /\ ~rc.hidden
  /\ rc.attempts > 0

\* C20: a timeout error is reported exactly `timeout` after a ping that no
\* pong has answered, with disconnect('timeout'); no ping waits longer than
\* `timeout`; a pong leaves the connection open without an error, stops the
\* timeout timer and starts the ping timer anew; and every ping is followed
\* by a pong, by the timeout or by the end of the connection (the peer
\* closes it, or a message of a wrong format does).
C20_HeartbeatTimeout ==
  /\ [][ /\ hb'.last.error = "timeout" =>
              /\ hb.age = hb.opts.timeout
              /\ hb.connected /\ ~hb'.connected
              /\ hb'.last.reason = "timeout"
         /\ hb'.age # NoTimer => (hb'.connected /\ hb'.age <= hb.opts.timeout)
         /\ (hb'.last.op = "pong" /\ hb' # hb) =>
              /\ hb'.connected
              /\ hb'.last.error = "none"
              /\ hb'.timeoutIn = NoTimer /\ hb'.age = NoTimer
              /\ hb'.pingIn = hb.opts.ping
       ]_vars
  /\ ((hb.age # NoTimer) ~>
        (hb.last.op \in {"pong", "timeout", "dropped", "wrong"}))

\* C20 witness: with ping 300 and timeout 100 a ping went unanswered and the
\* node has disconnected with a timeout error
C20_Witness ==
  /\ hb.opts = [ping |-> 3, timeout |-> 1]
  /\ hb.last.op = "timeout"
  /\ hb.last.error = "timeout"
  /\ ~hb.connected

\* The text that JSON.stringify gives for the six messages of a wrong format
WrongFormatText ==
  [m \in WrongMessages |->
     CASE m = <<Str("ping")>>               -> "[\"ping\"]"
       [] m = <<Str("ping"), Str("abc")>>   -> "[\"ping\",\"abc\"]"
       [] m = <<Str("ping"), EmptyArray>>   -> "[\"ping\",[]]"
       [] m = <<Str("pong")>>               -> "[\"pong\"]"
       [] m = <<Str("pong"), Str("abc")>>   -> "[\"pong\",\"abc\"]"
       [] m = <<Str("pong"), EmptyObject>>  -> "[\"pong\",{}]"]

\* A ping or a pong whose payload is missing or is not a number
BadPayload(m) ==
  /\ Len(m) >= 1
  /\ m[1] \in {Str("ping"), Str("pong")}
  /\ Len(m) = 1 \/ m[2].t # "number"

\* C21: a connected node that gets a ping or a pong whose payload is missing
\* or is not a number, authenticated or not, sends exactly one message,
\* ['error', 'wrong-format', JSON.stringify(message)], and is not connected
\* afterwards.
C21_WrongFormat ==
  [][ (hb.connected /\ BadPayload(hb'.last.got)) =>
        /\ Len(hb'.last.sent) = 1
        /\ hb'.last.sent[1] =
             <<Str("error"), Str("wrong-format"),
               Str(WrongFormatText[hb'.last.got])>>
        /\ ~hb'.connected
    ]_vars

\* C21 witness: a connected node got ['ping', 'abc'], has answered with the
\* wrong-format error and is not connected any more
C21_Witness ==
  /\ hb.last.got = <<Str("ping"), Str("abc")>>
  /\ hb.last.quiet # NoTimer
  /\ hb.last.sent =
       <<<<Str("error"), Str("wrong-format"), Str("[\"ping\",\"abc\"]")>>>>
  /\ ~hb.connected /\ ~hb.authenticated

\* The pings among the messages sent
PingsIn(msgs) == {i \in 1..Len(msgs) : msgs[i][1] = Str("ping")}

\* C22: a node with ping > 0 that has sent `connect` and has not got
\* `connected` yet sends no ping, however much time passes.
C22_NoPingBeforeAuth ==
  [][ (hb.connected /\ ~hb.authenticated /\ hb.opts.ping > 0) =>
        PingsIn(hb'.last.sent) = {}
    ]_vars

\* C22 witness: the node has sent `connect`, is not authenticated, and more
\* than twice its ping interval has passed since
C22_Witness ==
  /\ hb.connected /\ ~hb.authenticated
  /\ hb.last.op = "tick"
  /\ hb.opts.ping > 0
  /\ hb.idle > 2 * hb.opts.ping

\* C23 as stated: every ping goes out when `ping` has passed since the
\* node's last outbound message (or the answer to it), whatever has come
\* in since, and no ping is later than that.
C23_PingAfterOutbound ==
  /\ [][ PingsIn(hb'.last.sent) # {} => hb.idle = hb.opts.ping ]_vars
  /\ []((hb.authenticated /\ hb.age = NoTimer) => hb.idle <= hb.opts.ping)

\* C23: an authenticated node with ping > 0 sends a ping when `ping` has
\* passed since the last message it sent or got, so a message that comes in
\* postpones the ping; while no ping waits for its pong, no ping is later
\* than that.
C23_PingAfterMessage ==
  /\ [][ PingsIn(hb'.last.sent) # {} =>
            /\ hb.authenticated /\ hb.opts.ping > 0
            /\ hb.quiet = hb.opts.ping
       ]_vars
  /\ []((hb.authenticated /\ hb.age = NoTimer) => hb.quiet <= hb.opts.ping)

\* C23 witness: a ping has gone out `ping` after a message came in, which
\* is more than `ping` after the node's last outbound message
C23_Witness ==
  /\ hb.last.op = "ping"
  /\ PingsIn(hb.last.sent) # {}
  /\ hb.last.quiet = hb.opts.ping
  /\ hb.last.idle > hb.opts.ping

\* C24: an add() that does not throw emits `before` once, before the `add`
\* of the call, and its continuation emits no `before`; the choice between
\* the store and the broadcast reads meta.reasons after the `before`
\* listeners ran: with a reason then, and an id that is not stored, the
\* action is written to the store and the promise carries the meta with
\* `added`; with none the store is left alone. A listener that pushes a
\* reason leaves every action with one.
C24_EventOrder ==
  [][ /\ IsAddStep =>
           LET b == Ev("before", last'.action, last'.meta)
               a == Ev("add", last'.action, last'.meta)
               reasoned == Len(last'.meta.reasons) >= 1
           IN  /\ events' = IF last'.deferred THEN events \o <<b>>
                                               ELSE events \o <<b, a>>
               /\ last'.deferred = (reasoned \/ ~last'.newId)
               /\ (listener = "push") => reasoned
               /\ (reasoned /\ ~StoreHas(store, last'.meta.id)) =>
                    /\ last'.deferred
                    /\ store'.lastAdded = store.lastAdded + 1
                    /\ last'.result =
                         SetKey(last'.meta, "added", store'.lastAdded)
                    /\ store'.entries =
                         <<<<last'.action, last'.result>>>> \o store.entries
               /\ ~reasoned => store' = store
      /\ (last'.op = "addThen") =>
           \/ events' = events
           \/ /\ last'.value # JsFalse
              /\ events' = Append(events, Ev("add", last'.action, last'.value))
    ]_vars

\* C24 witness: add() got no id and no reasons, the `before` listener pushed
\* a reason, and the promise has resolved to the meta with `added` after
\* `before` and `add` were emitted in this order
C24_Witness ==
  /\ listener = "push"
  /\ last.op = "addThen"
  /\ last.meta.reasons = <<"r2">>
  /\ InSeq(last.meta.id, ids)
  /\ last.result = SetKey(last.meta, "added", 1)
  /\ StoreHas(store, last.meta.id)
  /\ events = <<Ev("before", last.action, last.meta),
                Ev("add", last.action, last.result)>>

\* The entries of the store st with the id
EntriesWith(st, id) == {i \in 1..Len(st.entries) : st.entries[i][2].id = id}

\* C25: an add() with the caller's id and no reasons after `before` leaves
\* the store as it is and emits no `add` before its promise resolves; the
\* promise resolves to false, with no `add`, when the store held the id at
\* the call, and only then; else the continuation emits `add` once and the
\* promise resolves to the meta.
C25_ReasonlessExternal ==
  [][ /\ (IsAddStep /\ ~last'.newId /\ last'.meta.reasons = <<>>) =>
           /\ store' = store
           /\ last'.deferred
           /\ events' = Append(events, Ev("before", last'.action, last'.meta))
           /\ (last'.result = JsFalse) = (EntriesWith(store, last'.meta.id) # {})
           /\ last'.result \in {JsFalse, last'.meta}
           /\ pending' = Append(pending, [action |-> last'.action,
                                          meta |-> last'.meta,
                                          value |-> last'.result])
      /\ (last'.op = "addThen" /\ last'.meta.reasons = <<>>) =>
           /\ store' = store
           /\ last'.result = last'.value
           /\ events' = IF last'.value = JsFalse THEN events
                         ELSE Append(events,
                                     Ev("add", last'.action, last'.meta))
    ]_vars

\* C25 witness: the id was stored by an add() with a reason, and a second
\* add() with the same id and no reason has resolved to false without an
\* `add`
C25_Witness ==
  /\ last.op = "addThen"
  /\ last.meta.reasons = <<>>
  /\ last.meta.id \in ExtIds
  /\ last.result = JsFalse
  /\ Cardinality(EntriesWith(store, last.meta.id)) = 1
  /\ Cardinality({k \in DOMAIN events : events[k].name = "add"}) = 1
  /\ pending = <<>>

====
